---- MODULE Spec2Model ----
(***************************************************************************)
(* A model of the quiz backend (app/main.py, app/auth.py): the generation  *)
(* pipeline, its flag and its sentence-splitting entry point, the rating   *)
(* and comment handlers with their read-modify-write cycles, registration, *)
(* the token gate of the routes, Aiken export and duplicate detection.     *)
(*                                                                         *)
(* Requests are handled by independent invocations that share only the     *)
(* document store (several worker processes / replicas of the app against  *)
(* one Firestore).  A step of the model is one call to a collaborator      *)
(* (store, translator, model); the local computation between two such      *)
(* calls is folded into the step that follows it.                          *)
(***************************************************************************)
EXTENDS Integers, Sequences, FiniteSets, TLC

VARIABLES
    \* ---- document store: topic documents ----
    generated_status,   \* [Topics -> BOOLEAN]: the generationInProgress flag
    saved,              \* [Topics -> Seq(result)]: QuestionSets persisted
    \* ---- one invocation of /get-question per run ----
    rpc,                \* [Runs -> position in process_request]
    rreq,               \* [Runs -> request (context, name) as it stands]
    rcalls,             \* [Runs -> Seq(call)]: collaborator calls returned
    rstatus,            \* [Runs -> HTTP status of the response, 0 if none]
    \* ---- document store: question documents ----
    rating,             \* [Questions -> Seq([uid, rate])]
    average_rating,     \* [Questions -> mean as a reduced fraction <<n, d>>]
    comments,           \* [Questions -> Seq([uid, comment, time])]
    body,               \* [Questions -> [text, choices, correct_choice]]
    \* ---- one invocation of /rating-questions or /comment-questions ----
    cpc,                \* [Calls -> position in the handler]
    creq,               \* [Calls -> the request being handled]
    cread,              \* [Calls -> the list of the document as read]
    clist,              \* [Calls -> the handler's local list, as modified]
    cresp,              \* [Calls -> the response: its HTTP status, 0 if none]
    \* ---- document store: user documents ----
    users,              \* set of [uid, email, username]
    \* ---- one invocation of /register ----
    gpc,                \* [Regs -> position in register_user]
    greq,               \* [Regs -> the UserCreate body]
    gstatus,            \* [Regs -> HTTP status of the response, 0 if none]
    \* ---- the routing of one request at a time ----
    aphase,             \* "idle", "received", "handler", "responded"
    areq,               \* the request: route and credential
    agate,              \* "not_run", "accepted", "rejected"
    astatus,            \* HTTP status of the response, 0 if none
    \* ---- document store: the questions of one topic, in store order ----
    topic_questions,    \* Seq([text, choices, correct_choice])
    \* ---- one invocation of /export-questions or /duplicate-questions-answers
    tpc,                \* "idle", "done"
    thandler,           \* the handler that ran, "" if none
    tstatus,            \* HTTP status of the response, 0 if none
    aiken_format_content,   \* the exported file: Seq(line)
    duplicate_questions,    \* Seq([question, position1, position2])
    duplicate_answers,      \* Seq([answer, position1, position2])
    \* ---- one invocation of /get-questions ----
    spc,                \* "idle", "loop", "run", "done", "failed", "denied"
    sreq,               \* the request: context (Seq of characters), name
    sentences,          \* the fragments of the context, Seq(Seq(character))
    results,            \* the handler's list of the runs' results
    srun,               \* the ModelInput of the run under way, as it stands
    sat,                \* the statement of process_request the run is at
    sgen,               \* the QuestionSet the run under way has generated
    sruns,              \* per run started: its context, the calls that
                        \* returned, and its result once it has returned
    sdata,              \* 'data' of the response
    sstatus             \* HTTP status of the response, 0 if none

pvars == <<generated_status, saved, rpc, rreq, rcalls, rstatus>>

qvars ==
    <<rating, average_rating, comments, body, cpc, creq, cread, clist, cresp>>

gvars == <<users, gpc, greq, gstatus>>

avars == <<aphase, areq, agate, astatus>>

tvars ==
    <<topic_questions, tpc, thandler, tstatus, aiken_format_content,
      duplicate_questions, duplicate_answers>>

svars ==
    <<spc, sreq, sentences, results, srun, sat, sgen, sruns, sdata, sstatus>>

vars == <<pvars, qvars, gvars, avars, tvars, svars>>

(***************************************************************************)
(* Bounds                                                                  *)
(***************************************************************************)
NumRuns == 2
Runs == 1..NumRuns

NumCalls == 2
Calls == 1..NumCalls

NumRegs == 2
Regs == 1..NumRegs

\* The questions of a topic (when it is searched for duplicates, when it is
\* exported) and the choices of a question.
MaxQuestions == 3
MaxExported == 2
MaxChoices == 2

\* The characters of the context of a /get-questions request.
MaxLen == 4

(***************************************************************************)
(* The bearer-token gate (auth.py)                                         *)
(***************************************************************************)
\* What a request can carry in its Authorization header.
Credentials == {"none", "basic", "bearer_lower", "bad_signature", "expired", "valid"}

\* What each of them is: whether an Authorization header is there, its
\* scheme as written, whether the token's signature is right and whether the
\* token is past its expiry.
HasCredentials(cred) == cred # "none"

SchemeOf(cred) ==
    CASE cred = "none" -> ""
      [] cred = "basic" -> "Basic"
      [] cred = "bearer_lower" -> "bearer"
      [] OTHER -> "Bearer"

SignatureValid(cred) == cred \notin {"none", "bad_signature"}

Expired(cred) == cred = "expired"

\* (jwt.decode with options={"verify_exp": False})
verify_jwt_ignores_expiry(cred) == cred \in {"valid", "expired"}

\* jwt.decode(token, secret, algorithms=["HS256"]) of verify_jwt: True, or
\* an HTTPException(403) for an expired or invalid token.
verify_jwt(cred) == cred = "valid"

\* JWTBearer.__call__: 200 when the token is returned, else the status of
\* the HTTPException raised.  HTTPBearer (auto_error=True) raises 403 when
\* there are no credentials or the scheme is not bearer in any letter case;
\* line 13 then insists on the exact scheme "Bearer".
JWTBearer(cred) ==
    IF cred \in {"none", "basic"} THEN 403
    ELSE IF cred = "bearer_lower" THEN 403
    ELSE IF ~verify_jwt(cred) THEN 403
    ELSE 200

\* The answers of the gate over all the requests a handler can receive.
GateAnswers == {JWTBearer(cred) : cred \in Credentials}

(***************************************************************************)
(* The generation pipeline (process_request, generate_que_n_ans)           *)
(***************************************************************************)
\* Topic names and contexts as the caller sends them, and in English.
Names == {"chu de", "topic", "other"}
Contexts == {"van ban", "text"}
Topics == {"topic", "other"}

\* vietnamese_to_english: GoogleTranslator(source='vi', target='en').
vietnamese_to_english(text) ==
    CASE text = "chu de" -> "topic"
      [] text = "van ban" -> "text"
      [] OTHER -> text

\* The topic document a run works on: (uid, translated name).
TopicOf(r) == vietnamese_to_english(rreq[r].name)

\* (the order below with the summarizer called before the flag is written)
NextStepSwapped(at) ==
    CASE at = "translate_context" -> "translate_name"
      [] at = "translate_name" -> "summary"
      [] at = "summary" -> "status_true"
      [] at = "status_true" -> "keywords"
      [] at = "keywords" -> "answers"
      [] at = "answers" -> "questions"
      [] at = "questions" -> "status_false"
      [] at = "status_false" -> "send_results"
      [] at = "send_results" -> "done"

\* The statements of process_request and generate_que_n_ans in program
\* order: the position after the statement at `at` has returned.
NextStep(at) ==
    CASE at = "translate_context" -> "translate_name"
      [] at = "translate_name" -> "status_true"
      [] at = "status_true" -> "summary"
      [] at = "summary" -> "keywords"
      [] at = "keywords" -> "answers"
      [] at = "answers" -> "questions"
      [] at = "questions" -> "status_false"
      [] at = "status_false" -> "send_results"
      [] at = "send_results" -> "done"

\* fs.update_generated_status(request, status): writes the flag of the
\* request's topic document.
update_generated_status(status, topic, value) ==
    [status EXCEPT ![topic] = value]

\* fs.send_results_to_fs(request, questions, crct_ans, all_ans, context):
\* persists the QuestionSet under the topic and returns it.
send_results_to_fs(store, topic, result) ==
    [store EXCEPT ![topic] = Append(@, result)]

NoRequest == [context |-> "", name |-> ""]

\* A call that raised: the exception leaves process_request and the handler,
\* and the framework answers 500.
Raise(r) ==
    /\ rpc' = [rpc EXCEPT ![r] = "failed"]
    /\ rstatus' = [rstatus EXCEPT ![r] = 500]
    /\ UNCHANGED rcalls

\* A call that returned.
Return(r, call) ==
    /\ rpc' = [rpc EXCEPT ![r] = NextStep(call)]
    /\ rcalls' = [rcalls EXCEPT ![r] = Append(@, call)]
    /\ rstatus' = [rstatus EXCEPT
                     ![r] = IF NextStep(call) = "done" THEN 200 ELSE @]

\* POST /get-question arrives: the gate runs (`gate` is its answer for the
\* request's credential), then model_inference calls process_request(request).
model_inference(r, context, name, gate) ==
    /\ rpc[r] = "idle"
    /\ IF gate = 200
       THEN /\ rpc' = [rpc EXCEPT ![r] = "translate_context"]
            /\ rreq' = [rreq EXCEPT ![r] = [context |-> context, name |-> name]]
            /\ UNCHANGED rstatus
       ELSE /\ rpc' = [rpc EXCEPT ![r] = "denied"]
            /\ rstatus' = [rstatus EXCEPT ![r] = gate]
            /\ UNCHANGED rreq
    /\ UNCHANGED <<generated_status, saved, rcalls>>

\* line 73: request.context = vietnamese_to_english(request.context)
translate_context(r, ok) ==
    /\ rpc[r] = "translate_context"
    /\ IF ok
       THEN /\ Return(r, "translate_context")
            /\ rreq' = [rreq EXCEPT
                          ![r].context = vietnamese_to_english(@)]
       ELSE /\ Raise(r)
            /\ UNCHANGED rreq
    /\ UNCHANGED <<generated_status, saved>>

\* line 74: request.name = vietnamese_to_english(request.name)
translate_name(r, ok) ==
    /\ rpc[r] = "translate_name"
    /\ IF ok
       THEN /\ Return(r, "translate_name")
            /\ rreq' = [rreq EXCEPT ![r].name = vietnamese_to_english(@)]
       ELSE /\ Raise(r)
            /\ UNCHANGED rreq
    /\ UNCHANGED <<generated_status, saved>>

\* (process_request without the write of line 76)
status_true_omitted(r, ok) ==
    /\ rpc[r] = "status_true"
    /\ IF ok THEN Return(r, "status_true") ELSE Raise(r)
    /\ UNCHANGED <<generated_status, saved, rreq>>

\* line 76: fs.update_generated_status(request, True)
status_true(r, ok) ==
    /\ rpc[r] = "status_true"
    /\ IF ok
       THEN /\ Return(r, "status_true")
            /\ generated_status' =
                 update_generated_status(generated_status, rreq[r].name, TRUE)
       ELSE /\ Raise(r)
            /\ UNCHANGED generated_status
    /\ UNCHANGED <<saved, rreq>>

\* One call of the model chain of generate_que_n_ans (lines 55-62).
ModelCall(r, call, ok) ==
    /\ rpc[r] = call
    /\ IF ok THEN Return(r, call) ELSE Raise(r)
    /\ UNCHANGED <<generated_status, saved, rreq>>

\* line 55: inference_handler.get_all_summary
summary(r, ok) == ModelCall(r, "summary", ok)
\* line 57: keyword_extractor.get_keywords
keywords(r, ok) == ModelCall(r, "keywords", ok)
\* line 60: false_ans_gen.get_output
answers(r, ok) == ModelCall(r, "answers", ok)
\* line 61: inference_handler.get_all_questions
questions(r, ok) == ModelCall(r, "questions", ok)

\* line 78: fs.update_generated_status(request, False)
status_false(r, ok) ==
    /\ rpc[r] = "status_false"
    /\ IF ok
       THEN /\ Return(r, "status_false")
            /\ generated_status' =
                 update_generated_status(generated_status, rreq[r].name, FALSE)
       ELSE /\ Raise(r)
            /\ UNCHANGED generated_status
    /\ UNCHANGED <<saved, rreq>>

\* lines 81-82 and 206: results = fs.send_results_to_fs(...); the handler
\* answers {'status': 200, 'data': results}.
send_results(r, ok) ==
    /\ rpc[r] = "send_results"
    /\ IF ok
       THEN /\ Return(r, "send_results")
            /\ saved' = send_results_to_fs(saved, rreq[r].name,
                                           [run |-> r, context |-> rreq[r].context])
       ELSE /\ Raise(r)
            /\ UNCHANGED saved
    /\ UNCHANGED <<generated_status, rreq>>

PipelineStart ==
    /\ generated_status = [t \in Topics |-> FALSE]
    /\ saved = [t \in Topics |-> <<>>]
    /\ rpc = [r \in Runs |-> "idle"]
    /\ rreq = [r \in Runs |-> NoRequest]
    /\ rcalls = [r \in Runs |-> <<>>]
    /\ rstatus = [r \in Runs |-> 0]

PipelineNext ==
    /\ UNCHANGED <<qvars, gvars, avars, tvars, svars>>
    /\ \E r \in Runs :
           \/ \E c \in Contexts, n \in Names, gate \in GateAnswers :
                  model_inference(r, c, n, gate)
           \/ \E ok \in BOOLEAN : translate_context(r, ok)
           \/ \E ok \in BOOLEAN : translate_name(r, ok)
           \/ \E ok \in BOOLEAN : status_true(r, ok)
           \/ \E ok \in BOOLEAN : summary(r, ok)
           \/ \E ok \in BOOLEAN : keywords(r, ok)
           \/ \E ok \in BOOLEAN : answers(r, ok)
           \/ \E ok \in BOOLEAN : questions(r, ok)
           \/ \E ok \in BOOLEAN : status_false(r, ok)
           \/ \E ok \in BOOLEAN : send_results(r, ok)

(***************************************************************************)
(* Properties of the pipeline                                              *)
(***************************************************************************)
Range(seq) == {seq[i] : i \in 1..Len(seq)}

IsPrefix(s, t) == Len(s) <= Len(t) /\ \A i \in 1..Len(s) : s[i] = t[i]

\* A run is executing from the entry of process_request until it returns
\* or an exception leaves it.
Executing(r) == rpc[r] \notin {"idle", "done", "failed", "denied"}

\* The run has written the flag true and has not returned from the model
\* chain.
InModelChain(r) == rpc[r] \in {"summary", "keywords", "answers", "questions"}

\* C1: whenever no pipeline run is executing for a topic, the topic's
\* generationInProgress flag is false (before the first run, after a run
\* that completed, after a run that a failure aborted).
C1_FlagFalseWhenNoRun ==
    \A t \in Topics :
        (\A r \in Runs : ~(Executing(r) /\ TopicOf(r) = t))
            => generated_status[t] = FALSE

\* C2 as stated: while a run has done step 2 and has not finished step 8
\* (the persist of the QuestionSet), the flag of its topic is true, whatever
\* the interleaving of runs.
C2_FlagTrueUntilPersisted ==
    \A r \in Runs :
        (InModelChain(r) \/ rpc[r] \in {"status_false", "send_results"})
            => generated_status[TopicOf(r)] = TRUE

\* C2 amended: a stored flag goes from true to false only by the step-8 flag
\* write (line 78) of a run for that topic, which precedes the persist; so a
\* run that has done step 2 and not yet its own flag write of step 8 sees its
\* topic's flag true as long as no other run for the topic has done its
\* step-8 flag write.
C2_TrueInChain ==
    \A r \in Runs :
        ( /\ InModelChain(r) \/ rpc[r] = "status_false"
          /\ \A o \in Runs \ {r} :
                 TopicOf(o) = TopicOf(r) => "status_false" \notin Range(rcalls[o]) )
            => generated_status[TopicOf(r)] = TRUE

C2_ClearedOnlyByStep8 ==
    \A t \in Topics :
        (generated_status[t] /\ ~generated_status'[t])
            => \E r \in Runs : /\ rpc[r] = "status_false"
                               /\ rpc'[r] = "send_results"
                               /\ rreq[r].name = t

C2_FlagTrueUntilCleared == []C2_TrueInChain /\ [][C2_ClearedOnlyByStep8]_vars

\* Two runs for one topic interleave in the model chain, the flag is true.
C2_Witness ==
    \E r \in Runs, o \in Runs :
        /\ r # o
        /\ TopicOf(r) = TopicOf(o)
        /\ rpc[r] = "questions"
        /\ rpc[o] = "summary"
        /\ generated_status[TopicOf(r)] = TRUE

\* The order of section 4.1.
StepOrder ==
    << "translate_context", "translate_name", "status_true",
       "summary", "keywords", "answers", "questions",
       "status_false", "send_results" >>

\* C3: the calls a run has made are a prefix of the fixed order (none
\* skipped, none reordered: no model call before the flag write, no persist
\* before the last model call), and a run that returned or persisted its
\* QuestionSet made all of them.
C3_FixedStepOrder ==
    /\ \A r \in Runs :
           /\ IsPrefix(rcalls[r], StepOrder)
           /\ rpc[r] = "done" => rcalls[r] = StepOrder
    /\ \A t \in Topics : \A i \in 1..Len(saved[t]) :
           rcalls[saved[t][i].run] = StepOrder

C3_Witness ==
    \E r \in Runs :
        /\ rpc[r] = "done"
        /\ rcalls[r] = StepOrder
        /\ \E i \in 1..Len(saved[TopicOf(r)]) : saved[TopicOf(r)][i].run = r

(***************************************************************************)
(* Question documents: /rating-questions and /comment-questions            *)
(***************************************************************************)
\* Question documents of one topic collection, addressed by
\* (uid, name, question_id); MissingId names no document.
Questions == {"q1", "q2"}
MissingId == "q0"
DocIds == Questions \cup {MissingId}

Users == {"u1", "u2"}
Rates == {1, 2}
Texts == {"a"}
\* datetime.now().isoformat() at the time of the append.
Times == {"t1"}

RECURSIVE Gcd(_, _)
Gcd(a, b) == IF b = 0 THEN a ELSE Gcd(b, a % b)

RECURSIVE SumRates(_)
SumRates(ratings) ==
    IF ratings = <<>> THEN 0
    ELSE ratings[1].rate + SumRates(Tail(ratings))

\* a / b of two naturals as a fraction in lowest terms.
Fraction(a, b) == <<a \div Gcd(a, b), b \div Gcd(a, b)>>

\* line 364: sum(r['rate'] for r in ratings) / len(ratings) if ratings else 0
Average(ratings) ==
    IF ratings = <<>> THEN <<0, 1>>
    ELSE Fraction(SumRates(ratings), Len(ratings))

\* The index of the first entry of uid, 0 when there is none (the loop of
\* lines 347-351 stops at the first match).
FirstIndex(ratings, uid) ==
    IF \E i \in 1..Len(ratings) : ratings[i].uid = uid
    THEN CHOOSE i \in 1..Len(ratings) :
             /\ ratings[i].uid = uid
             /\ \A j \in 1..(i - 1) : ratings[j].uid # uid
    ELSE 0

\* (lines 346-358 with the user's entry removed and added again at the end)
UpsertMoveToEnd(ratings, uid, rate) ==
    SelectSeq(ratings, LAMBDA e : e.uid # uid)
        \o <<[uid |-> uid, rate |-> rate]>>

\* (lines 346-358 without the search: always append)
UpsertAppendOnly(ratings, uid, rate) ==
    Append(ratings, [uid |-> uid, rate |-> rate])

\* lines 346-358: overwrite the rate of the user's entry in place, or append
\* a new entry.
Upsert(ratings, uid, rate) ==
    IF FirstIndex(ratings, uid) # 0
    THEN [ratings EXCEPT ![FirstIndex(ratings, uid)].rate = rate]
    ELSE Append(ratings, [uid |-> uid, rate |-> rate])

\* (lines 395-399 with insert(0, ...) in place of append)
AddCommentFirst(list, uid, text, now) ==
    <<[uid |-> uid, comment |-> text, time |-> now]>> \o list

\* lines 395-399: comments.append({'uid', 'comment', 'time'})
AddComment(list, uid, text, now) ==
    Append(list, [uid |-> uid, comment |-> text, time |-> now])

\* (an update that reaches every document of the collection)
update_collection(field, q, value) == [d \in Questions |-> value]

\* doc_ref.update({field: value}) on the document of q (lines 361, 367, 402).
update(field, q, value) == [field EXCEPT ![q] = value]

NoCall == [kind |-> "", q |-> "", uid |-> "", rate |-> 0, comment |-> "", time |-> ""]

\* The handler ends with an error response, HTTPException(status): the gate
\* rejected the request (403) or a store call raised (500); its locals are
\* gone.
Fail(c, status) ==
    /\ cpc' = [cpc EXCEPT ![c] = "done"]
    /\ cresp' = [cresp EXCEPT ![c] = [status |-> status]]
    /\ creq' = [creq EXCEPT ![c] = NoCall]
    /\ cread' = [cread EXCEPT ![c] = <<>>]
    /\ clist' = [clist EXCEPT ![c] = <<>>]

\* (the missing document answered as a success)
NotFoundAnswers200(c, kind, q) ==
    /\ cpc' = [cpc EXCEPT ![c] = "done"]
    /\ cresp' = [cresp EXCEPT ![c] = [status |-> 200]]
    /\ creq' = [creq EXCEPT ![c] = [NoCall EXCEPT !.kind = kind, !.q = q]]
    /\ cread' = [cread EXCEPT ![c] = <<>>]
    /\ clist' = [clist EXCEPT ![c] = <<>>]

\* lines 373-377 and 408-411: the document does not exist; ValueError
\* ("Question not found") becomes HTTPException(400).
NotFound(c, kind, q) ==
    /\ cpc' = [cpc EXCEPT ![c] = "done"]
    /\ cresp' = [cresp EXCEPT ![c] = [status |-> 400]]
    /\ creq' = [creq EXCEPT ![c] = [NoCall EXCEPT !.kind = kind, !.q = q]]
    /\ cread' = [cread EXCEPT ![c] = <<>>]
    /\ clist' = [clist EXCEPT ![c] = <<>>]

\* POST /rating-questions: the gate (`gate` is its answer for the request's
\* credential), then lines 337-358: read the document,
\* upsert the caller's rating in the local list.
rate_get(c, q, uid, rate, gate, ok) ==
    /\ cpc[c] = "idle"
    /\ IF gate # 200
       THEN Fail(c, gate)
       ELSE IF ~ok
       THEN Fail(c, 500)
       ELSE IF q \notin Questions
       THEN NotFound(c, "rate", q)
       ELSE /\ creq' = [creq EXCEPT ![c] = [NoCall EXCEPT !.kind = "rate", !.q = q,
                                          !.uid = uid, !.rate = rate]]
            /\ cread' = [cread EXCEPT ![c] = rating[q]]
            /\ clist' = [clist EXCEPT ![c] = Upsert(rating[q], uid, rate)]
            /\ cpc' = [cpc EXCEPT ![c] = "update_rating"]
            /\ UNCHANGED cresp
    /\ UNCHANGED <<rating, average_rating, comments, body>>

\* (line 361 as a transaction that reads the stored list again)
rate_update_rating_merge(c, ok) ==
    /\ cpc[c] = "update_rating"
    /\ IF ok
       THEN /\ rating' = update(rating, creq[c].q,
                                Upsert(rating[creq[c].q], creq[c].uid, creq[c].rate))
            /\ cpc' = [cpc EXCEPT ![c] = "update_average"]
            /\ UNCHANGED <<cresp, creq, cread, clist>>
       ELSE Fail(c, 500) /\ UNCHANGED rating
    /\ UNCHANGED <<average_rating, comments, body>>

\* line 361: doc_ref.update({'rating': ratings})
rate_update_rating(c, ok) ==
    /\ cpc[c] = "update_rating"
    /\ IF ok
       THEN /\ rating' = update(rating, creq[c].q, clist[c])
            /\ cpc' = [cpc EXCEPT ![c] = "update_average"]
            /\ UNCHANGED <<cresp, creq, cread, clist>>
       ELSE Fail(c, 500) /\ UNCHANGED rating
    /\ UNCHANGED <<average_rating, comments, body>>

\* lines 364-367: doc_ref.update({'average_rating': average_rating})
rate_update_average(c, ok) ==
    /\ cpc[c] = "update_average"
    /\ IF ok
       THEN /\ average_rating' =
                 update(average_rating, creq[c].q, Average(clist[c]))
            /\ cpc' = [cpc EXCEPT ![c] = "respond"]
            /\ UNCHANGED <<cresp, creq, cread, clist>>
       ELSE Fail(c, 500) /\ UNCHANGED average_rating
    /\ UNCHANGED <<rating, comments, body>>

\* POST /comment-questions: the gate, then lines 386-399: read the document,
\* append the comment to the local list.
comment_get(c, q, uid, text, now, gate, ok) ==
    /\ cpc[c] = "idle"
    /\ IF gate # 200
       THEN Fail(c, gate)
       ELSE IF ~ok
       THEN Fail(c, 500)
       ELSE IF q \notin Questions
       THEN NotFound(c, "comment", q)
       ELSE /\ creq' = [creq EXCEPT ![c] = [NoCall EXCEPT !.kind = "comment", !.q = q,
                                          !.uid = uid, !.comment = text, !.time = now]]
            /\ cread' = [cread EXCEPT ![c] = comments[q]]
            /\ clist' = [clist EXCEPT ![c] = AddComment(comments[q], uid, text, now)]
            /\ cpc' = [cpc EXCEPT ![c] = "update_comments"]
            /\ UNCHANGED cresp
    /\ UNCHANGED <<rating, average_rating, comments, body>>

\* (line 402 as doc_ref.set({'comments': comments}): the document is
\* replaced, its other fields are gone)
comment_update_set(c, ok) ==
    /\ cpc[c] = "update_comments"
    /\ IF ok
       THEN /\ comments' = update(comments, creq[c].q, clist[c])
            /\ rating' = update(rating, creq[c].q, <<>>)
            /\ average_rating' = update(average_rating, creq[c].q, Average(<<>>))
            /\ body' = update(body, creq[c].q,
                              [text |-> "", choices |-> <<>>, correct_choice |-> ""])
            /\ cpc' = [cpc EXCEPT ![c] = "respond"]
            /\ UNCHANGED <<cresp, creq, cread, clist>>
       ELSE Fail(c, 500) /\ UNCHANGED <<comments, rating, average_rating, body>>

\* line 402: doc_ref.update({'comments': comments})
comment_update(c, ok) ==
    /\ cpc[c] = "update_comments"
    /\ IF ok
       THEN /\ comments' = update(comments, creq[c].q, clist[c])
            /\ cpc' = [cpc EXCEPT ![c] = "respond"]
            /\ UNCHANGED <<cresp, creq, cread, clist>>
       ELSE Fail(c, 500) /\ UNCHANGED comments
    /\ UNCHANGED <<rating, average_rating, body>>

\* lines 369-372 and 404-407: the document is read again and returned,
\* return {'status': 200, 'data': doc_ref.get().to_dict()}
respond(c, ok) ==
    /\ cpc[c] = "respond"
    /\ IF ok
       THEN /\ cpc' = [cpc EXCEPT ![c] = "done"]
            /\ cresp' = [cresp EXCEPT
                           ![c] = [status |-> 200]]
            /\ cread' = [cread EXCEPT ![c] = <<>>]
            /\ clist' = [clist EXCEPT ![c] = <<>>]
            /\ UNCHANGED creq
       ELSE Fail(c, 500)
    /\ UNCHANGED <<rating, average_rating, comments, body>>

\* The stem, the choices and the correct choice of the question documents,
\* as the pipeline persisted them.
QuestionBodies ==
    [q \in Questions |->
        [text |-> q, choices |-> <<"w", "x", "y", "z">>, correct_choice |-> "x"]]

\* Rating lists the document of q1 can hold when the calls start (q2 has
\* none yet).
StoredRatings ==
    { <<>>,
      <<[uid |-> "u1", rate |-> 1], [uid |-> "u2", rate |-> 2]>> }

\* No handler is running.
CallsIdle(slots) ==
    /\ cpc = [c \in slots |-> "idle"]
    /\ creq = [c \in slots |-> NoCall]
    /\ cread = [c \in slots |-> <<>>]
    /\ clist = [c \in slots |-> <<>>]
    /\ cresp = [c \in slots |-> [status |-> 0]]

\* The question documents as the pipeline persisted them: no rating, no
\* comment.
QuestionsFresh ==
    /\ rating = [q \in Questions |-> <<>>]
    /\ average_rating = [q \in Questions |-> Average(<<>>)]
    /\ comments = [q \in Questions |-> <<>>]
    /\ body = QuestionBodies

QuestionNext ==
    /\ UNCHANGED <<pvars, gvars, avars, tvars, svars>>
    /\ \E c \in Calls :
           \/ /\ cpc[c] = "idle"
              /\ \E q \in DocIds, u \in Users, r \in Rates,
                     gate \in GateAnswers, ok \in BOOLEAN :
                     rate_get(c, q, u, r, gate, ok)
           \/ \E ok \in BOOLEAN : rate_update_rating(c, ok)
           \/ \E ok \in BOOLEAN : rate_update_average(c, ok)
           \/ /\ cpc[c] = "idle"
              /\ \E q \in DocIds, u \in Users, t \in Texts, now \in Times,
                     gate \in GateAnswers, ok \in BOOLEAN :
                     comment_get(c, q, u, t, now, gate, ok)
           \/ \E ok \in BOOLEAN : comment_update(c, ok)
           \/ \E ok \in BOOLEAN : respond(c, ok)

\* Two raters and two commenters at work on one question: two concurrent
\* /rating-questions requests and two concurrent /comment-questions
\* requests, all on q1 and all past the gate.
Raters == {1, 2}
Commenters == {3, 4}

LostUpdateNext ==
    /\ UNCHANGED <<pvars, gvars, avars, tvars, svars>>
    /\ \/ \E c \in Raters :
              \/ \E u \in Users, r \in Rates, ok \in BOOLEAN :
                     rate_get(c, "q1", u, r, 200, ok)
              \/ \E ok \in BOOLEAN : rate_update_rating(c, ok)
              \/ \E ok \in BOOLEAN : rate_update_average(c, ok)
              \/ \E ok \in BOOLEAN : respond(c, ok)
       \/ \E c \in Commenters :
              \/ \E u \in Users, t \in Texts, ok \in BOOLEAN :
                     comment_get(c, "q1", u, t, "t1", 200, ok)
              \/ \E ok \in BOOLEAN : comment_update(c, ok)
              \/ \E ok \in BOOLEAN : respond(c, ok)

\* One caller rates, gets the answer, and rates again: the second
\* /rating-questions request is sent after the first has returned, and no
\* other request is made.  The document of q1 already holds two ratings.
RatedBefore ==
    [q \in Questions |->
        IF q = "q1"
        THEN <<[uid |-> "u1", rate |-> 1], [uid |-> "u2", rate |-> 2]>>
        ELSE <<>>]

RateTwiceUsers == Users \cup {"u3"}

RateTwiceNext ==
    /\ UNCHANGED <<pvars, gvars, avars, tvars, svars>>
    /\ \/ \E q \in Questions, u \in RateTwiceUsers, r \in Rates, ok \in BOOLEAN :
              rate_get(1, q, u, r, 200, ok)
       \/ /\ cpc[1] = "done"
          /\ \E q \in Questions, u \in RateTwiceUsers, r \in Rates, ok \in BOOLEAN :
                 rate_get(2, q, u, r, 200, ok)
       \/ \E c \in {1, 2} :
              \/ \E ok \in BOOLEAN : rate_update_rating(c, ok)
              \/ \E ok \in BOOLEAN : rate_update_average(c, ok)
              \/ \E ok \in BOOLEAN : respond(c, ok)

(***************************************************************************)
(* Properties of the rating and comment handlers                           *)
(***************************************************************************)
Uids(list) == {list[i].uid : i \in 1..Len(list)}

\* A rate call is in flight on q: it has read the document and has not
\* answered yet.
RateInFlight(c, q) ==
    /\ cpc[c] \in {"update_rating", "update_average", "respond"}
    /\ creq[c].kind = "rate"
    /\ creq[c].q = q

\* The call has performed its write of the rating list (line 361).
WroteRating(c) ==
    /\ creq[c].kind = "rate"
    /\ cpc[c] \in {"update_average", "respond"}

\* The entry a comment call appends.
CommentOf(c) ==
    [uid |-> creq[c].uid, comment |-> creq[c].comment, time |-> creq[c].time]

\* C4: whenever no rate call is in flight on a question, its stored
\* averageRating is the arithmetic mean of its stored rating list (0 when
\* the list is empty).
C4_AverageIsMean ==
    \A q \in Questions :
        (\A c \in DOMAIN cpc : ~RateInFlight(c, q))
            => average_rating[q] = Average(rating[q])

\* C5: a stored rating list never holds two entries with the same userId.
C5_UniqueRaters ==
    \A q \in Questions :
        \A i \in 1..Len(rating[q]) : \A j \in 1..Len(rating[q]) :
            rating[q][i].uid = rating[q][j].uid => i = j

\* Two calls by one user, who had no entry when either of them read the
\* document, have both written the rating list.
C5_Witness ==
    \E a \in DOMAIN cpc, b \in DOMAIN cpc :
        /\ a # b
        /\ WroteRating(a) /\ WroteRating(b)
        /\ creq[a].q = creq[b].q
        /\ creq[a].uid = creq[b].uid
        /\ creq[a].uid \notin Uids(cread[a]) \cup Uids(cread[b])
        /\ creq[a].uid \in Uids(rating[creq[a].q])

\* C6: the writes are last-writer-wins on the read-modify-write window: a
\* rate call replaces the stored rating list by the list it read with its own
\* entry applied, and a comment call replaces the stored comments by the list
\* it read plus its own entry, whatever was stored in between; so the entry
\* another call stored inside the window is lost.
C6_WriteOfRate ==
    \A q \in Questions :
        rating'[q] # rating[q] =>
            \E c \in DOMAIN cpc :
                /\ cpc[c] = "update_rating" /\ cpc'[c] = "update_average"
                /\ creq[c].q = q
                /\ rating'[q] = Upsert(cread[c], creq[c].uid, creq[c].rate)

C6_WriteOfComment ==
    \A q \in Questions :
        comments'[q] # comments[q] =>
            \E c \in DOMAIN cpc :
                /\ cpc[c] = "update_comments" /\ cpc'[c] = "respond"
                /\ creq[c].q = q
                /\ comments'[q] = Append(cread[c], CommentOf(c))

\* What a call writes is its local list, whatever is stored at that time.
C6_WindowOverwrites ==
    /\ \A c \in DOMAIN cpc :
           (cpc[c] = "update_rating" /\ cpc'[c] = "update_average")
               => rating'[creq[c].q] = clist[c]
    /\ \A c \in DOMAIN cpc :
           (cpc[c] = "update_comments" /\ cpc'[c] = "respond")
               => comments'[creq[c].q] = clist[c]

C6_LastWriterWins ==
    [][C6_WriteOfRate /\ C6_WriteOfComment /\ C6_WindowOverwrites]_vars

\* Both raters (different users) and both commenters (different users) got
\* their 200, and the stored rating list and the stored comments each hold
\* the entry of one of the two only.
C6_Witness ==
    /\ \A c \in DOMAIN cpc : cpc[c] = "done" /\ cresp[c].status = 200
    /\ \E a \in DOMAIN cpc, b \in DOMAIN cpc :
           /\ creq[a].kind = "rate" /\ creq[b].kind = "rate"
           /\ creq[a].uid # creq[b].uid
           /\ Uids(rating["q1"]) = {creq[b].uid}
    /\ \E a \in DOMAIN cpc, b \in DOMAIN cpc :
           /\ creq[a].kind = "comment" /\ creq[b].kind = "comment"
           /\ creq[a].uid # creq[b].uid
           /\ Len(comments["q1"]) = 1
           /\ comments["q1"][1] = CommentOf(b)

\* C7 as stated: every write to the stored comments leaves the previous list
\* as an unchanged prefix and adds exactly one entry at the end.
C7_EveryWriteAppends ==
    [][\A q \in Questions :
           comments'[q] # comments[q] =>
               /\ IsPrefix(comments[q], comments'[q])
               /\ Len(comments'[q]) = Len(comments[q]) + 1]_vars

\* C7 amended: every write to the stored comments stores the list the call
\* read (line 389) with exactly one entry {uid, comment, time} added at the
\* end; the previous stored list is an unchanged prefix of the new one
\* whenever it still is the list the call read.
C7_WriteAppendsToRead ==
    \A q \in Questions :
        comments'[q] # comments[q] =>
            \E c \in DOMAIN cpc :
                /\ cpc[c] = "update_comments"
                /\ creq[c].kind = "comment"
                /\ creq[c].q = q
                /\ comments'[q] = Append(cread[c], CommentOf(c))
                /\ cread[c] = comments[q] =>
                       /\ IsPrefix(comments[q], comments'[q])
                       /\ Len(comments'[q]) = Len(comments[q]) + 1

C7_AppendOnlyPerRead == [][C7_WriteAppendsToRead]_vars

\* A comment was appended after another one: the first is still in place.
C7_Witness ==
    \E q \in Questions : \E c \in DOMAIN cpc :
        /\ creq[c].kind = "comment" /\ creq[c].q = q
        /\ cpc[c] = "respond"
        /\ Len(comments[q]) = 2
        /\ comments[q][2] = CommentOf(c)
        /\ comments[q][1] # CommentOf(c)

\* C10: a rate call reads and writes the document of its own question only:
\* a step changes a field of a question only if it is a step of a call that
\* targets that question, and what a rate call writes is computed from what
\* it read of that question; so the calls on one question behave as if they
\* ran alone.
C10_StepOfRate ==
    /\ \A q \in Questions :
           (rating'[q] # rating[q] \/ average_rating'[q] # average_rating[q]
                \/ comments'[q] # comments[q])
               => \E c \in DOMAIN cpc : creq[c].q = q /\ cpc'[c] # cpc[c]
    /\ \A c \in DOMAIN cpc :
           (cpc[c] = "idle" /\ cpc'[c] = "update_rating")
               => /\ cread'[c] = rating[creq'[c].q]
                  /\ clist'[c] = Upsert(cread'[c], creq'[c].uid, creq'[c].rate)
    /\ \A c \in DOMAIN cpc :
           (cpc[c] = "update_average" /\ cpc'[c] = "respond")
               => average_rating'[creq[c].q] = Average(clist[c])

C10_RatersDoNotInterfere == [][C10_StepOfRate]_vars

\* Two rate calls on different questions have both written, and each
\* question holds its own caller's rating.
C10_Witness ==
    \E a \in DOMAIN cpc, b \in DOMAIN cpc :
        /\ creq[a].q # creq[b].q
        /\ WroteRating(a) /\ WroteRating(b)
        /\ rating[creq[a].q] = clist[a]
        /\ rating[creq[b].q] = clist[b]
        /\ clist[a] # clist[b]

\* C12: the rating update and the averageRating recomputation of a rate call
\* are one atomic change of the question document: every state of the store
\* shows an averageRating that is the mean of the rating list stored with it
\* (never the list as updated by a call with the average from before it).
C12_RatingAndAverageAtomic ==
    \A q \in Questions : average_rating[q] = Average(rating[q])

\* The first call and then the second call have returned 200, both for
\* user u on question q.
RatedTwice(q, u) ==
    /\ cpc[1] = "done" /\ cresp[1].status = 200
    /\ cpc[2] = "done" /\ cresp[2].status = 200
    /\ creq[1].q = q /\ creq[2].q = q
    /\ creq[1].uid = u /\ creq[2].uid = u

\* C13: after rate(q,u,r1) and then rate(q,u,r2), with no other call, the
\* rating list of q holds exactly one entry of u, with rate r2; it stands
\* where u's entry stood before the two calls, or at the end of the list when
\* u had none; the entries of the other users are as before, and
\* averageRating is the mean of the list.
C13_RateTwice ==
    \A q \in Questions, u \in RateTwiceUsers :
        RatedTwice(q, u) =>
            LET before == RatedBefore[q]
                after == rating[q]
                at == {i \in 1..Len(after) : after[i].uid = u}
            IN /\ Cardinality(at) = 1
               /\ \A i \in at : after[i].rate = creq[2].rate
               /\ IF u \in Uids(before)
                  THEN /\ Len(after) = Len(before)
                       /\ \A i \in at : before[i].uid = u
                  ELSE /\ Len(after) = Len(before) + 1
                       /\ at = {Len(after)}
               /\ \A i \in 1..Len(before) :
                      before[i].uid # u => after[i] = before[i]
               /\ average_rating[q] = Average(after)

\* u2, whose entry is the second of two, has rated twice with different
\* rates.
C13_Witness ==
    /\ RatedTwice("q1", "u2")
    /\ creq[1].rate # creq[2].rate
    /\ creq[2].rate # RatedBefore["q1"][2].rate

\* The kind of the call that takes a step (its request is known after the
\* step when the step is its first).
KindOfStep(c) == IF cpc[c] = "idle" THEN creq'[c].kind ELSE creq[c].kind

\* The call has got past its write of the comments (line 402).
WroteComments(c) ==
    /\ creq[c].kind = "comment"
    /\ cpc[c] = "respond" \/ (cpc[c] = "done" /\ cresp[c].status = 200)

\* The call has got past its write of the rating list (line 361) and has
\* not failed since.
WroteRatingOrDone(c) ==
    /\ creq[c].kind = "rate"
    /\ cpc[c] \in {"update_average", "respond"}
           \/ (cpc[c] = "done" /\ cresp[c].status = 200)

\* C19: a step of a rate call changes no field but rating and averageRating,
\* a step of a comment call no field but comments; text, choices and
\* correctChoice are never changed, and correctChoice stays one of the
\* choices.  So a rate call and a comment call on one question do not undo
\* each other: with the other rater idle, a rater's entry is stored once it
\* has written, whatever the commenters do, and the same for a commenter.
C19_StepWritesOwnFields ==
    \A c \in DOMAIN cpc :
        cpc'[c] # cpc[c] =>
            /\ body' = body
            /\ KindOfStep(c) = "rate" => comments' = comments
            /\ KindOfStep(c) = "comment" =>
                   rating' = rating /\ average_rating' = average_rating
            /\ KindOfStep(c) = "" =>
                   /\ comments' = comments
                   /\ rating' = rating /\ average_rating' = average_rating

C19_BothTakeEffect ==
    /\ \A q \in Questions : body[q].correct_choice \in Range(body[q].choices)
    /\ \A a \in Raters :
           (WroteRatingOrDone(a) /\ \A b \in Raters \ {a} : cpc[b] = "idle")
               => \E i \in 1..Len(rating[creq[a].q]) :
                      rating[creq[a].q][i] = [uid |-> creq[a].uid, rate |-> creq[a].rate]
    /\ \A a \in Commenters :
           (WroteComments(a) /\ \A b \in Commenters \ {a} : cpc[b] = "idle")
               => CommentOf(a) \in Range(comments[creq[a].q])

C19_RateAndCommentFrame ==
    []C19_BothTakeEffect /\ [][C19_StepWritesOwnFields]_vars

\* A rate call and a comment call are in flight on q1 at the same time, both
\* have written, and the document holds the rating and the comment.
C19_Witness ==
    \E a \in Raters, b \in Commenters :
        /\ cpc[a] = "update_average" /\ cpc[b] = "respond"
        /\ rating["q1"] = <<[uid |-> creq[a].uid, rate |-> creq[a].rate]>>
        /\ comments["q1"] = <<CommentOf(b)>>
        /\ body["q1"] = QuestionBodies["q1"]

\* C20: a rate call or a comment call that names no existing question
\* document (and got past the gate and the read of line 340 / 389) ends with
\* status 400 in that step, and the step writes nothing: every field of every
\* document is as before and no document is added; calls that go on to a
\* write name an existing document.
C20_NotFoundStep ==
    \A c \in DOMAIN cpc :
        (cpc[c] = "idle" /\ cpc'[c] # "idle" /\ creq'[c].q \notin Questions)
            => /\ cpc'[c] = "done"
               /\ cresp'[c].status \in {400, 403, 500}
               /\ creq'[c].kind # "" => cresp'[c].status = 400
               /\ <<rating, average_rating, comments, body>>'
                      = <<rating, average_rating, comments, body>>

C20_NotFoundState ==
    /\ DOMAIN rating = Questions /\ DOMAIN average_rating = Questions
    /\ DOMAIN comments = Questions /\ DOMAIN body = Questions
    /\ \A c \in DOMAIN cpc :
           /\ creq[c].q = MissingId =>
                  cpc[c] = "done" /\ cresp[c].status = 400
           /\ cpc[c] \in {"update_rating", "update_average",
                           "update_comments", "respond"}
                  => creq[c].q \in Questions
           /\ cresp[c].status = 400 => creq[c].q = MissingId

C20_NotFoundWritesNothing == []C20_NotFoundState /\ [][C20_NotFoundStep]_vars

\* A comment call on a missing document has got its 400 while a rate call on
\* an existing one has written.
C20_Witness ==
    \E c \in DOMAIN cpc, d \in DOMAIN cpc :
        /\ creq[c].q = MissingId /\ creq[c].kind = "comment"
        /\ cresp[c].status = 400
        /\ WroteRating(d)

(***************************************************************************)
(* Registration (register_user)                                            *)
(***************************************************************************)
Emails == {"a@x.org", "b@x.org"}
Usernames == {"ann", "bob"}

\* fs.get_user_by_email(email): the user document with that email, if any.
get_user_by_email(email) == \E u \in users : u.email = email

\* fs.get_user_by_username(username)
get_user_by_username(username) == \E u \in users : u.username = username

\* fs.create_user(email, username, password): a new user document under a
\* fresh uid (the password is hashed and plays no part in what follows).
create_user(uid, email, username) ==
    users \cup {[uid |-> uid, email |-> email, username |-> username]}

NoUser == [email |-> "", username |-> ""]

RegisterFail(p, status) ==
    /\ gpc' = [gpc EXCEPT ![p] = "done"]
    /\ gstatus' = [gstatus EXCEPT ![p] = status]

\* (lines 487-489 without the lookup of the email)
register_check_email_unchecked(p, email, username, valid, ok) ==
    /\ gpc[p] = "idle"
    /\ greq' = [greq EXCEPT ![p] = [email |-> email, username |-> username]]
    /\ IF ~valid THEN RegisterFail(p, 422)
       ELSE IF ~ok THEN RegisterFail(p, 500)
       ELSE /\ gpc' = [gpc EXCEPT ![p] = "check_username"]
            /\ UNCHANGED gstatus
    /\ UNCHANGED users

\* POST /register, lines 487-489: the body is validated (UserCreate), then
\* the email is looked up.
register_check_email(p, email, username, valid, ok) ==
    /\ gpc[p] = "idle"
    /\ greq' = [greq EXCEPT ![p] = [email |-> email, username |-> username]]
    /\ IF ~valid THEN RegisterFail(p, 422)
       ELSE IF ~ok THEN RegisterFail(p, 500)
       ELSE IF get_user_by_email(email) THEN RegisterFail(p, 400)
       ELSE /\ gpc' = [gpc EXCEPT ![p] = "check_username"]
            /\ UNCHANGED gstatus
    /\ UNCHANGED users

\* lines 491-493: the username is looked up.
register_check_username(p, ok) ==
    /\ gpc[p] = "check_username"
    /\ IF ~ok THEN RegisterFail(p, 500)
       ELSE IF get_user_by_username(greq[p].username) THEN RegisterFail(p, 400)
       ELSE /\ gpc' = [gpc EXCEPT ![p] = "create_user"]
            /\ UNCHANGED gstatus
    /\ UNCHANGED <<users, greq>>

\* lines 495-498: the user document is created, the answer is 201.
register_create_user(p, ok) ==
    /\ gpc[p] = "create_user"
    /\ IF ok
       THEN /\ users' = create_user(p, greq[p].email, greq[p].username)
            /\ RegisterFail(p, 201)
       ELSE /\ RegisterFail(p, 500)
            /\ UNCHANGED users
    /\ UNCHANGED greq

RegisterStart ==
    /\ users = {}
    /\ gpc = [p \in Regs |-> "idle"]
    /\ greq = [p \in Regs |-> NoUser]
    /\ gstatus = [p \in Regs |-> 0]

RegisterNext ==
    /\ UNCHANGED <<pvars, qvars, avars, tvars, svars>>
    /\ \E p \in Regs :
           \/ \E e \in Emails, n \in Usernames, valid \in BOOLEAN, ok \in BOOLEAN :
                  register_check_email(p, e, n, valid, ok)
           \/ \E ok \in BOOLEAN : register_check_username(p, ok)
           \/ \E ok \in BOOLEAN : register_create_user(p, ok)

\* C9: no two stored users share an email and no two share a username.
C9_UniqueEmailAndUsername ==
    \A u \in users : \A v \in users :
        (u.email = v.email \/ u.username = v.username) => u = v

\* C17: a register call that looks up an email or a username a stored user
\* holds ends there with an error status (400, unless the body was refused
\* with 422 or the lookup raised, 500) and the users are as before; a user is
\* added only by the create step of a call that found its email absent and
\* then its username absent, and a call answered 400 has created no user.
C17_RegisterStep ==
    /\ \A p \in Regs :
           /\ ( /\ gpc[p] = "idle" /\ gpc'[p] # "idle"
                /\ get_user_by_email(greq'[p].email) )
                  => /\ gpc'[p] = "done"
                     /\ gstatus'[p] \in {400, 422, 500}
                     /\ users' = users
           /\ ( /\ gpc[p] = "check_username" /\ gpc'[p] # "check_username"
                /\ get_user_by_username(greq[p].username) )
                  => /\ gpc'[p] = "done"
                     /\ gstatus'[p] \in {400, 500}
                     /\ users' = users
           /\ (gpc[p] # "check_username" /\ gpc'[p] = "check_username")
                  => gpc[p] = "idle" /\ ~get_user_by_email(greq'[p].email)
           /\ (gpc[p] # "create_user" /\ gpc'[p] = "create_user")
                  => /\ gpc[p] = "check_username"
                     /\ ~get_user_by_username(greq[p].username)
    /\ users' # users =>
           \E p \in Regs :
               /\ gpc[p] = "create_user" /\ gstatus'[p] = 201
               /\ users' = users \cup {[uid |-> p, email |-> greq[p].email,
                                          username |-> greq[p].username]}

C17_RegisterState ==
    \A p \in Regs :
        /\ gstatus[p] = 400 =>
               /\ \A u \in users : u.uid # p
               /\ \E u \in users : \/ u.email = greq[p].email
                                     \/ u.username = greq[p].username
        /\ (\E u \in users : u.uid = p) <=> gstatus[p] = 201

C17_DuplicateRejected == []C17_RegisterState /\ [][C17_RegisterStep]_vars

\* A second registration with the email of a stored user was answered 400,
\* and the stored user is still the only one.
C17_Witness ==
    \E p \in Regs, o \in Regs :
        /\ p # o
        /\ gstatus[o] = 201 /\ gstatus[p] = 400
        /\ greq[p].email = greq[o].email
        /\ greq[p].username # greq[o].username
        /\ users = {[uid |-> o, email |-> greq[o].email,
                      username |-> greq[o].username]}

(***************************************************************************)
(* The routes and their gate                                               *)
(***************************************************************************)
Routes ==
    { "/get-question", "/get-questions", "/export-questions",
      "/export-questions-moodle", "/duplicate-questions-answers",
      "/rating-questions", "/comment-questions", "/search-questions",
      "/delete-question", "/register", "/login" }

\* The handlers declared with  token: str = Depends(auth_scheme)
\* (lines 177, 213, 307, 334, 383, 416, 464).
DependsOnAuthScheme(route) ==
    route \in { "/get-question", "/get-questions",
                "/duplicate-questions-answers", "/rating-questions",
                "/comment-questions", "/search-questions",
                "/delete-question" }

NoRoute == [route |-> "", cred |-> "none"]

\* A request arrives on a route.
receive(route, cred) ==
    /\ aphase \in {"idle", "responded"}
    /\ aphase' = "received"
    /\ areq' = [route |-> route, cred |-> cred]
    /\ agate' = "not_run"
    /\ astatus' = 0

\* The framework resolves the dependencies of the handler: the gate runs for
\* the handlers that declare it, and its HTTPException is the response.
resolve_dependencies ==
    /\ aphase = "received"
    /\ IF ~DependsOnAuthScheme(areq.route)
       THEN /\ aphase' = "handler"
            /\ UNCHANGED <<agate, astatus>>
       ELSE IF JWTBearer(areq.cred) = 200
       THEN /\ aphase' = "handler"
            /\ agate' = "accepted"
            /\ UNCHANGED astatus
       ELSE /\ aphase' = "responded"
            /\ agate' = "rejected"
            /\ astatus' = JWTBearer(areq.cred)
    /\ UNCHANGED areq

\* The body of the handler runs: it reads or writes the store and answers
\* (`status` is the answer of the body: 200/201 or one of its errors).
run_handler(status) ==
    /\ aphase = "handler"
    /\ aphase' = "responded"
    /\ astatus' = status
    /\ UNCHANGED <<areq, agate>>

RoutingStart ==
    /\ aphase = "idle"
    /\ areq = NoRoute
    /\ agate = "not_run"
    /\ astatus = 0

RoutingNext ==
    /\ UNCHANGED <<pvars, qvars, gvars, tvars, svars>>
    /\ \/ \E route \in Routes, cred \in Credentials : receive(route, cred)
       \/ resolve_dependencies
       \/ \E status \in {200, 400, 500} : run_handler(status)

\* C8: on every route other than /register and /login the body of the
\* handler runs (reads the store, writes it, returns data) only for a request
\* whose token the gate accepted.
C8_HandlersBehindGate ==
    (aphase = "handler" /\ areq.route \notin {"/register", "/login"})
        => JWTBearer(areq.cred) = 200

\* C18: the gate lets a request through to the handler only when it carries
\* credentials, their scheme is exactly "Bearer" and the token has a right
\* signature and is not expired; with no credentials, another scheme, a wrong
\* signature or an expired token the gate answers with a client error and
\* the handler does not run.
GoodToken(cred) ==
    /\ HasCredentials(cred)
    /\ SchemeOf(cred) = "Bearer"
    /\ SignatureValid(cred)
    /\ ~Expired(cred)

C18_GateAcceptsOnlyValidBearer ==
    /\ agate = "accepted" => GoodToken(areq.cred)
    /\ agate = "rejected" =>
           /\ ~GoodToken(areq.cred)
           /\ aphase = "responded"
           /\ astatus \in 400..499
    /\ (DependsOnAuthScheme(areq.route) /\ aphase \in {"handler", "responded"})
           => /\ agate # "not_run"
              /\ agate = "accepted" <=> GoodToken(areq.cred)
    /\ (DependsOnAuthScheme(areq.route) /\ astatus \in 200..299)
           => GoodToken(areq.cred)

\* A request with an expired token was turned away with 403.
C18_Witness ==
    /\ agate = "rejected"
    /\ Expired(areq.cred)
    /\ astatus = 403

(***************************************************************************)
(* Export and duplicate detection over the questions of a topic            *)
(***************************************************************************)
Stems == {"s", "t"}
Choices == {"x", "y"}

\* The sequences over S of length lo..hi.
SeqsOf(S, lo, hi) == UNION {[1..n -> S] : n \in lo..hi}

\* The question records fs.get_questions_by_uid_and_topic returns: a stem,
\* the choices in store order (a choice can occur twice) and the correct
\* choice, which is one of the choices.
QuestionRecords ==
    { [text |-> t, choices |-> c, correct_choice |-> a] :
          t \in Stems, c \in SeqsOf(Choices, 1, MaxChoices), a \in Choices }

StoredQuestions ==
    { q \in QuestionRecords : q.correct_choice \in Range(q.choices) }

\* chr(65 + idx)
Alphabet ==
    << "A", "B", "C", "D", "E", "F", "G", "H", "I", "J", "K", "L", "M",
       "N", "O", "P", "Q", "R", "S", "T", "U", "V", "W", "X", "Y", "Z" >>

chr(code) == IF code \in 65..90 THEN Alphabet[code - 64] ELSE "?"

\* (index that returns the last position of the value)
last_index(list, value) ==
    (CHOOSE i \in 1..Len(list) :
         /\ list[i] = value
         /\ \A j \in (i + 1)..Len(list) : list[j] # value) - 1

\* list.index(value): the first position (from 0) of the value; ValueError
\* when it is not in the list (no caller reaches that case here).
index(list, value) ==
    (CHOOSE i \in 1..Len(list) :
         /\ list[i] = value
         /\ \A j \in 1..(i - 1) : list[j] # value) - 1

\* lines 262-267 for one question: the lines "<text>", "<letter>. <answer>"
\* for each choice, "ANSWER: <letter>" and an empty line.  A line is the
\* tuple of the pieces the f-string joins.
AikenOfQuestion(question) ==
    <<  <<question.text>>  >>
        \o [idx \in 1..Len(question.choices) |->
                <<chr(65 + (idx - 1)), ". ", question.choices[idx]>>]
        \o <<  <<"ANSWER: ",
                chr(65 + index(question.choices, question.correct_choice))>>,
              <<>>  >>

\* lines 259-267: the loop over the questions.
RECURSIVE AikenOf(_)
AikenOf(qs) ==
    IF qs = <<>> THEN <<>>
    ELSE AikenOfQuestion(Head(qs)) \o AikenOf(Tail(qs))

\* lines 324-326: the loop over the choices of q1, from position k on.
RECURSIVE AnswersLoop(_, _, _, _, _)
AnswersLoop(q1, q2, k, idx1, idx2) ==
    IF k > Len(q1.choices) THEN <<>>
    ELSE (IF q1.choices[k] \in Range(q2.choices)
          THEN << [answer |-> q1.choices[k],
                   position1 |-> idx1, position2 |-> idx2] >>
          ELSE <<>>)
         \o AnswersLoop(q1, q2, k + 1, idx1, idx2)

\* lines 318-326: the two loops over the positions, idx1 from 0 and idx2
\* from idx1 + 1; `what` selects the list that is built.
RECURSIVE PairsLoop(_, _, _, _)
PairsLoop(qs, idx1, idx2, what) ==
    IF idx1 >= Len(qs) THEN <<>>
    ELSE IF idx2 >= Len(qs) THEN PairsLoop(qs, idx1 + 1, idx1 + 2, what)
    ELSE LET q1 == qs[idx1 + 1]
             q2 == qs[idx2 + 1]
         IN (IF what = "questions"
             THEN (IF q1.text = q2.text
                   THEN << [question |-> q1.text,
                            position1 |-> idx1, position2 |-> idx2] >>
                   ELSE <<>>)
             ELSE AnswersLoop(q1, q2, 1, idx1, idx2))
            \o PairsLoop(qs, idx1, idx2 + 1, what)

\* The handler answers with an error and produces nothing.
TransformFail(handler, status) ==
    /\ tpc' = "done"
    /\ thandler' = handler
    /\ tstatus' = status
    /\ UNCHANGED <<topic_questions, aiken_format_content,
                   duplicate_questions, duplicate_answers>>

\* POST /export-questions (lines 244-277; no gate): the questions of the
\* topic are fetched (`found`: the topic exists, else ValueError and 400),
\* the Aiken text is built and written to the file that is sent back.
export_questions(found, ok) ==
    /\ tpc = "idle"
    /\ IF ~ok THEN TransformFail("export_questions", 500)
       ELSE IF ~found THEN TransformFail("export_questions", 400)
       ELSE /\ tpc' = "done"
            /\ thandler' = "export_questions"
            /\ tstatus' = 200
            /\ aiken_format_content' = AikenOf(topic_questions)
            /\ UNCHANGED <<topic_questions, duplicate_questions,
                           duplicate_answers>>

\* POST /duplicate-questions-answers (lines 306-331): the gate, the fetch
\* and the loops.
get_duplicate_questions_answers(gate, found, ok) ==
    /\ tpc = "idle"
    /\ IF gate # 200
       THEN TransformFail("get_duplicate_questions_answers", gate)
       ELSE IF ~ok
       THEN TransformFail("get_duplicate_questions_answers", 500)
       ELSE IF ~found
       THEN TransformFail("get_duplicate_questions_answers", 400)
       ELSE /\ tpc' = "done"
            /\ thandler' = "get_duplicate_questions_answers"
            /\ tstatus' = 200
            /\ duplicate_questions' = PairsLoop(topic_questions, 0, 1, "questions")
            /\ duplicate_answers' = PairsLoop(topic_questions, 0, 1, "answers")
            /\ UNCHANGED <<topic_questions, aiken_format_content>>

\* No export and no duplicate detection has run.
TransformIdle ==
    /\ tpc = "idle"
    /\ thandler = ""
    /\ tstatus = 0
    /\ aiken_format_content = <<>>
    /\ duplicate_questions = <<>>
    /\ duplicate_answers = <<>>

TransformStart ==
    /\ topic_questions = <<>>
    /\ TransformIdle

ExportNext ==
    /\ UNCHANGED <<pvars, qvars, gvars, avars, svars>>
    /\ \E found \in BOOLEAN, ok \in BOOLEAN : export_questions(found, ok)

DuplicatesNext ==
    /\ UNCHANGED <<pvars, qvars, gvars, avars, svars>>
    /\ \E gate \in GateAnswers, found \in BOOLEAN, ok \in BOOLEAN :
           get_duplicate_questions_answers(gate, found, ok)

(***************************************************************************)
(* Properties of the export and of the duplicate detection                 *)
(***************************************************************************)
\* The positions of a list at which an entry satisfies a condition.
EntriesAt(list, i, j) ==
    {m \in 1..Len(list) : list[m].position1 = i /\ list[m].position2 = j}

\* C14: for every pair of positions i < j the answer holds exactly one
\* duplicate-question entry {text, i, j} when the two texts are equal and
\* none otherwise, and exactly one duplicate-answer entry {answer, i, j} for
\* each distinct choice string that is in the choices of both questions and
\* none for any other string; there is no entry for a pair with i >= j.
C14_DuplicatesExact ==
    (thandler = "get_duplicate_questions_answers" /\ tstatus = 200) =>
        LET n == Len(topic_questions)
        IN /\ \A m \in 1..Len(duplicate_questions) :
                  /\ duplicate_questions[m].position1 \in 0..(n - 1)
                  /\ duplicate_questions[m].position2 \in 0..(n - 1)
                  /\ duplicate_questions[m].position1
                         < duplicate_questions[m].position2
           /\ \A m \in 1..Len(duplicate_answers) :
                  /\ duplicate_answers[m].position1 \in 0..(n - 1)
                  /\ duplicate_answers[m].position2 \in 0..(n - 1)
                  /\ duplicate_answers[m].position1
                         < duplicate_answers[m].position2
           /\ \A i \in 0..(n - 1), j \in 0..(n - 1) :
                  i < j =>
                      LET qi == topic_questions[i + 1]
                          qj == topic_questions[j + 1]
                      IN /\ Cardinality(EntriesAt(duplicate_questions, i, j))
                               = IF qi.text = qj.text THEN 1 ELSE 0
                         /\ \A m \in EntriesAt(duplicate_questions, i, j) :
                                duplicate_questions[m].question = qi.text
                         /\ \A a \in Choices :
                                Cardinality(
                                    {m \in EntriesAt(duplicate_answers, i, j) :
                                         duplicate_answers[m].answer = a})
                                  = IF a \in Range(qi.choices) \cap Range(qj.choices)
                                    THEN 1 ELSE 0
                         /\ \A m \in EntriesAt(duplicate_answers, i, j) :
                                duplicate_answers[m].answer \in Choices

\* The file read back: the blocks of lines that the empty lines end.
RECURSIVE AikenBlocks(_, _)
AikenBlocks(lines, block) ==
    IF lines = <<>> THEN (IF block = <<>> THEN <<>> ELSE <<block>>)
    ELSE IF Head(lines) = <<>>
    THEN <<block>> \o AikenBlocks(Tail(lines), <<>>)
    ELSE AikenBlocks(Tail(lines), Append(block, Head(lines)))

\* The position in the alphabet of a letter.
LetterPosition(letter) == CHOOSE p \in 1..26 : Alphabet[p] = letter

\* C15: the exported text holds one block per question, in the order of the
\* input: the stem, the choices lettered A, B, ... by their position, and
\* "ANSWER: <letter>" with the letter of the first position of the correct
\* choice; the choice line at the position of that letter carries the
\* original correct choice.
C15_AikenRoundTrip ==
    (thandler = "export_questions" /\ tstatus = 200) =>
        LET blocks == AikenBlocks(aiken_format_content, <<>>)
        IN /\ Len(blocks) = Len(topic_questions)
           /\ \A k \in 1..Len(topic_questions) :
                  LET b == blocks[k]
                      q == topic_questions[k]
                      p == LetterPosition(b[Len(b)][2])
                  IN /\ Len(b) = Len(q.choices) + 2
                     /\ b[1] = <<q.text>>
                     /\ \A i \in 1..Len(q.choices) :
                            b[i + 1] = <<Alphabet[i], ". ", q.choices[i]>>
                     /\ b[Len(b)][1] = "ANSWER: "
                     /\ p \in 1..Len(q.choices)
                     /\ b[p + 1][3] = q.correct_choice
                     /\ \A i \in 1..(p - 1) : q.choices[i] # q.correct_choice

\* Two questions were exported: one whose correct choice is its second
\* choice, one whose correct choice occurs twice in its choices.
C15_Witness ==
    /\ thandler = "export_questions" /\ tstatus = 200
    /\ Len(topic_questions) = 2
    /\ topic_questions[1].choices = <<"x", "y">>
    /\ topic_questions[1].correct_choice = "y"
    /\ topic_questions[2].choices = <<"y", "y">>
    /\ aiken_format_content[4] = <<"ANSWER: ", "B">>
    /\ aiken_format_content[9] = <<"ANSWER: ", "A">>

(***************************************************************************)
(* The split entry point (get_questions)                                   *)
(***************************************************************************)
\* The characters a context is made of: a letter, the space and the three
\* marks that end a sentence.
Characters == {"a", " ", ".", "!", "?"}

SplitContexts == SeqsOf(Characters, 0, MaxLen)

\* (sentence_delimiters = r'[.]')
sentence_delimiters_dot_only == {"."}

\* line 227: sentence_delimiters = r'[.!?]'
sentence_delimiters == {".", "!", "?"}

\* line 230: re.split(sentence_delimiters, text): the pieces between the
\* delimiters, empty ones included; `piece` is the piece being read.
RECURSIVE re_split(_, _)
re_split(text, piece) ==
    IF text = <<>> THEN <<piece>>
    ELSE IF Head(text) \in sentence_delimiters
    THEN <<piece>> \o re_split(Tail(text), <<>>)
    ELSE re_split(Tail(text), Append(piece, Head(text)))

\* str.strip(): the leading and the trailing white space is dropped.
RECURSIVE lstrip(_)
lstrip(text) ==
    IF text # <<>> /\ Head(text) = " " THEN lstrip(Tail(text)) ELSE text

RECURSIVE rstrip(_)
rstrip(text) ==
    IF text # <<>> /\ text[Len(text)] = " "
    THEN rstrip(SubSeq(text, 1, Len(text) - 1))
    ELSE text

strip(text) == rstrip(lstrip(text))

\* line 233: [sentence.strip() for sentence in sentences if sentence.strip()]
RECURSIVE StripAndFilter(_)
StripAndFilter(pieces) ==
    IF pieces = <<>> THEN <<>>
    ELSE (IF strip(Head(pieces)) # <<>> THEN <<strip(Head(pieces))>> ELSE <<>>)
         \o StripAndFilter(Tail(pieces))

\* The numbers of questions the models can make of one fragment.
QuestionCounts == {0, 1, 2}

\* The QuestionSet of n questions generated by the k-th run.
QuestionSetOf(k, n) == [i \in 1..n |-> [run |-> k, number |-> i]]

NoSplitRequest == [context |-> <<>>, name |-> ""]
NoModelInput == [context |-> <<>>, name |-> ""]

\* POST /get-questions: the gate, then lines 224-233: the context is split.
get_questions(context, name, gate) ==
    /\ spc = "idle"
    /\ IF gate = 200
       THEN /\ spc' = "loop"
            /\ sreq' = [context |-> context, name |-> name]
            /\ sentences' = StripAndFilter(re_split(context, <<>>))
            /\ results' = <<>>
            /\ UNCHANGED sstatus
       ELSE /\ spc' = "denied"
            /\ sstatus' = gate
            /\ UNCHANGED <<sreq, sentences, results>>
    /\ UNCHANGED <<srun, sat, sgen, sruns, sdata, generated_status, saved>>

\* lines 236-237: the loop takes the next sentence and calls
\* process_request(ModelInput(context=sentence, uid, name)).
call_process_request ==
    /\ spc = "loop"
    /\ Len(results) < Len(sentences)
    /\ spc' = "run"
    /\ srun' = [context |-> sentences[Len(results) + 1], name |-> sreq.name]
    /\ sat' = "translate_context"
    /\ sgen' = <<>>
    /\ sruns' = Append(sruns, [context |-> sentences[Len(results) + 1],
                                calls |-> <<>>, returned |-> FALSE,
                                result |-> <<>>])
    /\ UNCHANGED <<sreq, sentences, results, sdata, sstatus,
                   generated_status, saved>>

\* (the exception of a run is caught and the results so far are returned)
StepRaisesPartial ==
    /\ spc' = "done"
    /\ sstatus' = 200
    /\ sdata' = results
    /\ sat' = ""
    /\ srun' = NoModelInput
    /\ sgen' = <<>>
    /\ results' = <<>>
    /\ UNCHANGED <<sreq, sentences, sruns, generated_status, saved>>

\* The statement the run is at raises: the exception leaves process_request
\* and get_questions (no try), the framework answers 500, the locals are
\* gone.
StepRaises ==
    /\ spc' = "failed"
    /\ sstatus' = 500
    /\ sat' = ""
    /\ srun' = NoModelInput
    /\ sgen' = <<>>
    /\ results' = <<>>
    /\ UNCHANGED <<sreq, sentences, sruns, sdata, generated_status, saved>>

\* The statement the run is at returns (lines 73-82); after the last one
\* process_request returns the result of send_results_to_fs and line 238
\* appends it to results.  `n` is the number of questions the question
\* generator makes.
StepReturns(n) ==
    LET k == Len(sruns)
        after == [sruns EXCEPT ![k].calls = Append(@, sat)]
    IN /\ sat' = IF NextStep(sat) = "done" THEN "" ELSE NextStep(sat)
       /\ srun' = IF sat = "translate_name"
                  THEN [srun EXCEPT !.name = vietnamese_to_english(@)]
                  ELSE IF sat = "send_results" THEN NoModelInput
                  ELSE srun
       /\ generated_status' =
              IF sat = "status_true"
              THEN update_generated_status(generated_status, srun.name, TRUE)
              ELSE IF sat = "status_false"
              THEN update_generated_status(generated_status, srun.name, FALSE)
              ELSE generated_status
       /\ sgen' = IF sat = "questions" THEN QuestionSetOf(k, n)
                  ELSE IF sat = "send_results" THEN <<>>
                  ELSE sgen
       /\ saved' = IF sat = "send_results"
                   THEN send_results_to_fs(saved, srun.name, sgen)
                   ELSE saved
       /\ IF sat = "send_results"
          THEN /\ results' = Append(results, sgen)
               /\ sruns' = [after EXCEPT ![k].returned = TRUE, ![k].result = sgen]
               /\ spc' = "loop"
          ELSE /\ sruns' = after
               /\ UNCHANGED <<results, spc>>
       /\ UNCHANGED <<sreq, sentences, sdata, sstatus>>

\* One statement of the run under way: a collaborator call that returns or
\* raises.
process_request_step(ok, n) ==
    /\ spc = "run"
    /\ IF ok THEN StepReturns(n) ELSE StepRaises

\* line 242: return JSONResponse(content={'status': 200, 'data': results})
return_results ==
    /\ spc = "loop"
    /\ Len(results) = Len(sentences)
    /\ spc' = "done"
    /\ sstatus' = 200
    /\ sdata' = results
    /\ results' = <<>>
    /\ UNCHANGED <<sreq, sentences, srun, sat, sgen, sruns,
                   generated_status, saved>>

SplitStart ==
    /\ spc = "idle"
    /\ sreq = NoSplitRequest
    /\ sentences = <<>>
    /\ results = <<>>
    /\ srun = NoModelInput
    /\ sat = ""
    /\ sgen = <<>>
    /\ sruns = <<>>
    /\ sdata = <<>>
    /\ sstatus = 0

SplitNext ==
    /\ UNCHANGED <<rpc, rreq, rcalls, rstatus, qvars, gvars, avars, tvars>>
    /\ \/ /\ spc = "idle"
          /\ \E context \in SplitContexts, name \in Names,
                 gate \in GateAnswers :
                 get_questions(context, name, gate)
       \/ call_process_request
       \/ \E ok \in BOOLEAN, n \in QuestionCounts : process_request_step(ok, n)
       \/ return_results

(***************************************************************************)
(* Properties of the split entry point                                     *)
(***************************************************************************)
\* The fragments of a text, said without a loop: the positions of the marks
\* cut the text into pieces; a piece is trimmed to what lies between its
\* first and its last character that is not a space; empty ones are left
\* out.
CutsOf(text) ==
    {0, Len(text) + 1} \cup {i \in 1..Len(text) : text[i] \in {".", "!", "?"}}

NthCut(text, k) ==
    CHOOSE c \in CutsOf(text) :
        Cardinality({d \in CutsOf(text) : d < c}) = k - 1

Trimmed(piece) ==
    LET solid == {i \in 1..Len(piece) : piece[i] # " "}
    IN IF solid = {} THEN <<>>
       ELSE SubSeq(piece,
                   CHOOSE i \in solid : \A j \in solid : i <= j,
                   CHOOSE i \in solid : \A j \in solid : i >= j)

Fragments(text) ==
    SelectSeq(
        [k \in 1..(Cardinality(CutsOf(text)) - 1) |->
            Trimmed(SubSeq(text, NthCut(text, k) + 1, NthCut(text, k + 1) - 1))],
        LAMBDA f : f # <<>>)

\* The QuestionSets of the runs, one after the other.
RECURSIVE Concatenation(_)
Concatenation(runs) ==
    IF runs = <<>> THEN <<>>
    ELSE Head(runs).result \o Concatenation(Tail(runs))

\* The runs of a /get-questions call: the context is split into its
\* fragments; the k-th run started is a run of process_request on the k-th
\* fragment; a run is started only when every run before it has returned;
\* when the call answers 200 every fragment has had its run, once.
C11_OneRunPerFragment ==
    /\ spc \in {"loop", "run", "done", "failed"} =>
           sentences = Fragments(sreq.context)
    /\ Len(sruns) <= Len(sentences)
    /\ \A k \in 1..Len(sruns) :
           /\ sruns[k].context = sentences[k]
           /\ k < Len(sruns) =>
                  sruns[k].returned /\ sruns[k].calls = StepOrder
    /\ sstatus = 200 =>
           /\ Len(sruns) = Len(sentences)
           /\ \A k \in 1..Len(sruns) : sruns[k].returned

Persisted == UNION {{<<t, i>> : i \in 1..Len(saved[t])} : t \in Topics}

\* C16: a run whose step failed is aborted: it makes no later call and
\* persists nothing, the caller gets an error (500) and no data, and nothing
\* happens after that; a run returns a QuestionSet, and the caller gets
\* data, only when every step of the run succeeded.
C16_AbortedState ==
    /\ \A k \in 1..Len(sruns) :
           /\ IsPrefix(sruns[k].calls, StepOrder)
           /\ sruns[k].returned <=> sruns[k].calls = StepOrder
           /\ ~sruns[k].returned => sruns[k].result = <<>>
    /\ Cardinality(Persisted)
           = Cardinality({k \in 1..Len(sruns) : sruns[k].returned})
    /\ spc = "failed" =>
           /\ sstatus = 500 /\ sdata = <<>>
           /\ Len(sruns) >= 1
           /\ ~sruns[Len(sruns)].returned
           /\ "send_results" \notin Range(sruns[Len(sruns)].calls)
    /\ sstatus = 200 =>
           \A k \in 1..Len(sruns) : sruns[k].calls = StepOrder
    /\ sdata # <<>> => sstatus = 200

C16_NothingAfterFailure ==
    spc = "failed" =>
        /\ spc' = "failed"
        /\ <<sruns, sdata, sstatus, saved, generated_status>>'
               = <<sruns, sdata, sstatus, saved, generated_status>>

C16_FailureAborts == []C16_AbortedState /\ [][C16_NothingAfterFailure]_vars

\* The second run of a call failed at the persist: the first run's
\* QuestionSet is the only one persisted and the call was answered 500.
C16_Witness ==
    /\ spc = "failed" /\ sstatus = 500
    /\ Len(sruns) = 2
    /\ sruns[1].returned
    /\ Len(sruns[2].calls) = Len(StepOrder) - 1
    /\ Cardinality(Persisted) = 1

(***************************************************************************)
(* Specifications: each one runs one part of the application and leaves    *)
(* the rest at its initial state.                                          *)
(***************************************************************************)
PipelineInit ==
    /\ PipelineStart
    /\ CallsIdle(Calls) /\ QuestionsFresh
    /\ RegisterStart /\ RoutingStart /\ TransformStart /\ SplitStart

SpecPipeline == PipelineInit /\ [][PipelineNext]_vars

RegisterInit ==
    /\ RegisterStart
    /\ PipelineStart /\ CallsIdle(Calls) /\ QuestionsFresh /\ RoutingStart
    /\ TransformStart /\ SplitStart

SpecRegister == RegisterInit /\ [][RegisterNext]_vars

RoutingInit ==
    /\ RoutingStart
    /\ PipelineStart /\ CallsIdle(Calls) /\ QuestionsFresh /\ RegisterStart
    /\ TransformStart /\ SplitStart

SpecRouting == RoutingInit /\ [][RoutingNext]_vars

QuestionInit ==
    /\ CallsIdle(Calls)
    /\ rating \in {f \in [Questions -> StoredRatings] : f["q2"] = <<>>}
    /\ average_rating = [q \in Questions |-> Average(rating[q])]
    /\ comments = [q \in Questions |-> <<>>]
    /\ body = QuestionBodies
    /\ PipelineStart /\ RegisterStart /\ RoutingStart /\ TransformStart
    /\ SplitStart

SpecQuestion == QuestionInit /\ [][QuestionNext]_vars

LostUpdateInit ==
    /\ CallsIdle(Raters \cup Commenters)
    /\ QuestionsFresh
    /\ PipelineStart /\ RegisterStart /\ RoutingStart /\ TransformStart
    /\ SplitStart

SpecLostUpdate == LostUpdateInit /\ [][LostUpdateNext]_vars

RateTwiceInit ==
    /\ CallsIdle({1, 2})
    /\ rating = RatedBefore
    /\ average_rating = [q \in Questions |-> Average(rating[q])]
    /\ comments = [q \in Questions |-> <<>>]
    /\ body = QuestionBodies
    /\ PipelineStart /\ RegisterStart /\ RoutingStart /\ TransformStart
    /\ SplitStart

SpecRateTwice == RateTwiceInit /\ [][RateTwiceNext]_vars

ExportInit ==
    /\ topic_questions \in SeqsOf(StoredQuestions, 0, MaxExported)
    /\ TransformIdle
    /\ PipelineStart /\ CallsIdle(Calls) /\ QuestionsFresh
    /\ RegisterStart /\ RoutingStart /\ SplitStart

SpecExport == ExportInit /\ [][ExportNext]_vars

DuplicatesInit ==
    /\ topic_questions \in SeqsOf(StoredQuestions, 0, MaxQuestions)
    /\ TransformIdle
    /\ PipelineStart /\ CallsIdle(Calls) /\ QuestionsFresh
    /\ RegisterStart /\ RoutingStart /\ SplitStart

SpecDuplicates == DuplicatesInit /\ [][DuplicatesNext]_vars

SplitInit ==
    /\ SplitStart
    /\ PipelineStart /\ CallsIdle(Calls) /\ QuestionsFresh
    /\ RegisterStart /\ RoutingStart /\ TransformStart

SpecSplit == SplitInit /\ [][SplitNext]_vars

====
